---- MODULE Spec2Model ----
(***************************************************************************)
(* Model of counter_aist_aloha/bin/all_analysis.py (batch scan of a corpus *)
(* root) and counter_aist_aloha/bin/analysis.py (single-folder analysis).  *)
(*                                                                         *)
(* Strings whose characters matter (folder names) are sequences of         *)
(* one-character strings; paths are sequences of components.  Python       *)
(* floats are modelled as exact rationals [num, den] (den > 0); binary     *)
(* floating-point representation error is outside the model.               *)
(***************************************************************************)
EXTENDS Integers, Sequences, FiniteSets, TLC

VARIABLES mode, listing, data_dir, meta_info, folder_paths, fi, fs,
          hdf5_files, k, total_action_steps, total_action_segments,
          summary_rows, printed, csv_file, json_file, pc, exit_code, now

vars == <<mode, listing, data_dir, meta_info, folder_paths, fi, fs,
          hdf5_files, k, total_action_steps, total_action_segments,
          summary_rows, printed, csv_file, json_file, pc, exit_code, now>>

(* ------------------------------ bounds --------------------------------- *)
MaxFolders == 2
MaxFiles == 2
MaxLen == 2
MaxTime == 1

(* ------------------------------ strings -------------------------------- *)
UpperCase == <<"A","B","C","D","E","F","G","H","I","J","K","L","M",
               "N","O","P","Q","R","S","T","U","V","W","X","Y","Z">>
LowerCase == <<"a","b","c","d","e","f","g","h","i","j","k","l","m",
               "n","o","p","q","r","s","t","u","v","w","x","y","z">>

lower_char(c) ==
    IF \E i \in 1..26 : UpperCase[i] = c
    THEN LowerCase[CHOOSE i \in 1..26 : UpperCase[i] = c]
    ELSE c

lower(s) == [i \in 1..Len(s) |-> lower_char(s[i])]

startswith(s, p) == Len(s) >= Len(p) /\ SubSeq(s, 1, Len(p)) = p

contains(p, s) ==
    \E i \in 1..(Len(s) - Len(p) + 1) : SubSeq(s, i, i + Len(p) - 1) = p

join(path, name) == Append(path, name)

basename(path) == path[Len(path)]

(* ------------------------------ rationals ------------------------------ *)
Rat(n) == [num |-> n, den |-> 1]

RDiv(q, d) == [num |-> q.num, den |-> q.den * d]

RECURSIVE gcd(_, _)
gcd(a, b) == IF b = 0 THEN a ELSE gcd(b, a % b)

(* a + b over the least common denominator *)
RAdd(a, b) ==
    LET g == gcd(a.den, b.den)
    IN  [num |-> a.num * (b.den \div g) + b.num * (a.den \div g),
         den |-> (a.den \div g) * b.den]

REq(a, b) == a.num * b.den = b.num * a.den

RECURSIVE RSum(_)
RSum(qs) == IF qs = <<>> THEN Rat(0) ELSE RAdd(qs[1], RSum(Tail(qs)))

RECURSIVE ISum(_)
ISum(ns) == IF ns = <<>> THEN 0 ELSE ns[1] + ISum(Tail(ns))

(* round(x, 2): nearest hundredth, ties to the even hundredth *)
round2(q) ==
    LET n  == 100 * q.num
        fl == n \div q.den
        r  == n % q.den
        h  == IF 2 * r < q.den THEN fl
              ELSE IF 2 * r > q.den THEN fl + 1
              ELSE IF fl % 2 = 0 THEN fl ELSE fl + 1
    IN  [num |-> h, den |-> 100]

(* ------------------------------ inputs --------------------------------- *)
(* a file that was not written; a written file is a non-empty sequence of
   rows (CSV) or holds one document (JSON) *)
NoFile == <<>>

codebase_dir == <<"root">>

N_hidden == <<".","h","i","d","d","e","n">>
N_TEMP_run3 == <<"T","E","M","P","_","r","u","n","3">>
N_my_backup_copy == <<"m","y","_","b","a","c","k","u","p","_","c","o","p","y">>
N_latest_session == <<"l","a","t","e","s","t","_","s","e","s","s","i","o","n">>
N_old_Trash == <<"o","l","d",".","T","r","a","s","h">>
N_pick_cube == <<"p","i","c","k","_","c","u","b","e">>
N_fold_towel == <<"f","o","l","d","_","t","o","w","e","l">>
N_notes_txt == <<"n","o","t","e","s",".","t","x","t">>

(* entries os.listdir may return; notes.txt is a regular file *)
DirNames == {N_hidden, N_TEMP_run3, N_my_backup_copy, N_latest_session,
             N_old_Trash, N_pick_cube, N_fold_towel}
EntryNames == DirNames \cup {N_notes_txt}

isdir(name) == name \in DirNames

Listings ==
    UNION {{s \in [1..n -> EntryNames] : \A i, j \in 1..n : i # j => s[i] # s[j]}
           : n \in 0..MaxFolders}

(* an episode file: what opening it and reading its two arrays does *)
FileContents ==
    {[kind |-> "ok", action |-> a, label |-> l] : a \in 1..MaxLen, l \in 1..MaxLen}
    \cup {[kind |-> "nolabel", action |-> a, label |-> 0] : a \in 1..MaxLen}
    \cup {[kind |-> "labelfail", action |-> a, label |-> 0] : a \in 1..MaxLen}
    \cup {[kind |-> "openfail", action |-> 0, label |-> 0],
          [kind |-> "noaction", action |-> 0, label |-> 0]}

FileSystems == UNION {[1..n -> FileContents] : n \in 0..MaxFiles}

Perms(n) == {s \in [1..n -> 1..n] : \A i, j \in 1..n : i # j => s[i] # s[j]}

(* glob.glob(data_dir/**/*.hdf5): the files found, in any order *)
glob(dir, tree) ==
    {[i \in 1..Len(tree) |-> join(dir, p[i])] : p \in Perms(Len(tree))}

MetaInfos ==
    {[robot_id |-> "", operator_id |-> "", link |-> "", note |-> "",
      environment |-> "", software_version |-> "", frame_rate |-> 50,
      target_item |-> "", target_area |-> "", data_type |-> "",
      data_description |-> ""],
     [robot_id |-> "aloha-1", operator_id |-> "op-7", link |-> "http://x",
      note |-> "n", environment |-> "lab", software_version |-> "v1",
      frame_rate |-> 8, target_item |-> "cube", target_area |-> "table",
      data_type |-> "teleop", data_description |-> "desc"]}

NoMeta == [robot_id |-> "", operator_id |-> "", link |-> "", note |-> "",
           environment |-> "", software_version |-> "", frame_rate |-> 0,
           target_item |-> "", target_area |-> "", data_type |-> "",
           data_description |-> ""]

strftime(t) == <<"%Y-%m-%d %H:%M:%S", t>>

Header == <<"Task Name (Identifier)", "Total Time (seconds)", "Total Time (hours)",
            "Frame Count", "Frame Rate", "Robot ID", "Operator ID",
            "Segment Count", "Record Time", "Environment", "Software Version",
            "Target Item", "Link", "Note", "Data Description">>

Msg(m, path) == [msg |-> m, path |-> path]

(* ------------------------------ state ---------------------------------- *)
Init ==
    /\ mode \in {"batch", "single"}
    /\ listing \in Listings
    /\ mode = "batch" => data_dir = codebase_dir
    /\ mode = "single" =>
         /\ listing = <<>>
         /\ data_dir \in {join(codebase_dir, N_pick_cube),
                           join(codebase_dir, N_fold_towel)}
    /\ meta_info = NoMeta
    /\ folder_paths = <<>>
    /\ fi = 1
    /\ fs = <<>>
    /\ hdf5_files = <<>>
    /\ k = 1
    /\ total_action_steps = 0
    /\ total_action_segments = 0
    /\ summary_rows = <<>>
    /\ printed = <<>>
    /\ csv_file = NoFile
    /\ json_file = NoFile
    /\ pc = "start"
    /\ exit_code = 0
    /\ now = 0

(* --------------------- all_analysis.py: batch scan --------------------- *)
(* the filter with the substring tests dropped (prefix tests only) *)
excluded_prefix_only(path) ==
    \/ startswith(basename(path), <<".">>)
    \/ contains(<<".","T","r","a","s","h">>, basename(path))
    \/ startswith(lower(basename(path)), <<"t","e","m","p">>)
    \/ startswith(lower(basename(path)), <<"t","e","s","t">>)
    \/ startswith(lower(basename(path)), <<"b","a","c","k","u","p">>)

(* the folder-name filter: TRUE when the folder is dropped from the scan *)
excluded(path) ==
    \/ startswith(basename(path), <<".">>)
    \/ contains(<<".","T","r","a","s","h">>, basename(path))
    \/ startswith(lower(basename(path)), <<"t","e","m","p">>)
    \/ startswith(lower(basename(path)), <<"t","e","s","t">>)
    \/ startswith(lower(basename(path)), <<"b","a","c","k","u","p">>)
    \/ contains(<<"t","e","m","p">>, lower(basename(path)))
    \/ contains(<<"t","e","s","t">>, lower(basename(path)))
    \/ contains(<<"b","a","c","k","u","p">>, lower(basename(path)))

(* load_meta_info, then the list of sub-directories of codebase_dir *)
ListFolders ==
    /\ pc = "start" /\ mode = "batch"
    /\ meta_info' \in MetaInfos
    /\ folder_paths' =
         LET dirs == SelectSeq(listing, isdir)
         IN  [i \in 1..Len(dirs) |-> join(codebase_dir, dirs[i])]
    /\ pc' = "filter"
    /\ UNCHANGED <<mode, listing, data_dir, fi, fs, hdf5_files, k,
                   total_action_steps, total_action_segments, summary_rows,
                   printed, csv_file, json_file, exit_code, now>>

FilterFolders ==
    /\ pc = "filter"
    /\ folder_paths' = SelectSeq(folder_paths, LAMBDA p : ~excluded(p))
    /\ fi' = 1
    /\ pc' = "folders"
    /\ UNCHANGED <<mode, listing, data_dir, meta_info, fs, hdf5_files, k,
                   total_action_steps, total_action_segments, summary_rows,
                   printed, csv_file, json_file, exit_code, now>>

(* the content of the file at a path of the folder under scan *)
content(file_path) == fs[basename(file_path)]

(* analyze_hdf5_files after glob: exit(1) on no file, else totals at 0 *)
batch_analyze_start(files, dir) ==
    IF files = <<>>
    THEN /\ printed' = Append(printed, Msg("No HDF5 files found", dir))
         /\ exit_code' = 1
         /\ pc' = "exited"
         /\ UNCHANGED <<total_action_steps, total_action_segments, k>>
    ELSE /\ total_action_steps' = 0
         /\ total_action_segments' = 0
         /\ k' = 1
         /\ pc' = "files"
         /\ UNCHANGED <<printed, exit_code>>

BatchGlobEmpty ==
    /\ pc = "folders" /\ fi <= Len(folder_paths)
    /\ fs' = <<>>
    /\ hdf5_files' = <<>>
    /\ batch_analyze_start(hdf5_files', folder_paths[fi])
    /\ UNCHANGED <<mode, listing, data_dir, meta_info, folder_paths, fi,
                   summary_rows, csv_file, json_file, now>>

BatchGlobFound ==
    /\ pc = "folders" /\ fi <= Len(folder_paths)
    /\ \E tree \in FileSystems \ {<<>>} :
         /\ fs' = tree
         /\ hdf5_files' \in glob(folder_paths[fi], tree)
    /\ batch_analyze_start(hdf5_files', folder_paths[fi])
    /\ UNCHANGED <<mode, listing, data_dir, meta_info, folder_paths, fi,
                   summary_rows, csv_file, json_file, now>>

(* frames counted only once the segment array has been read *)
batch_steps_added_label_first(f) == IF f.kind = "ok" THEN f.action ELSE 0

(* what the body of the with-block adds before it completes or raises *)
batch_steps_added(f) ==
    IF f.kind \in {"ok", "nolabel", "labelfail"} THEN f.action ELSE 0

batch_segments_added(f) == IF f.kind = "ok" THEN f.label ELSE 0

(* h5py.File, f['action'] or f['label/task_timestep'].shape raises *)
batch_raises(f) == f.kind \in {"openfail", "noaction", "labelfail"}

(* the loop body without its try/except: the exception leaves the scan *)
read_without_try(file_path) ==
    /\ total_action_steps' =
         total_action_steps + batch_steps_added(content(file_path))
    /\ total_action_segments' =
         total_action_segments + batch_segments_added(content(file_path))
    /\ IF batch_raises(content(file_path))
       THEN /\ pc' = "raised"
            /\ exit_code' = 1
            /\ UNCHANGED k
       ELSE /\ k' = k + 1
            /\ UNCHANGED <<pc, exit_code>>
    /\ UNCHANGED printed

(* one iteration of the try/except loop over hdf5_files *)
try_read(file_path) ==
    /\ total_action_steps' =
         total_action_steps + batch_steps_added(content(file_path))
    /\ total_action_segments' =
         total_action_segments + batch_segments_added(content(file_path))
    /\ printed' = IF batch_raises(content(file_path))
                  THEN Append(printed, Msg("Error opening", file_path))
                  ELSE printed
    /\ k' = k + 1
    /\ UNCHANGED <<pc, exit_code>>

BatchReadFile ==
    /\ pc = "files" /\ mode = "batch" /\ k <= Len(hdf5_files)
    /\ try_read(hdf5_files[k])
    /\ UNCHANGED <<mode, listing, data_dir, meta_info, folder_paths, fi, fs,
                   hdf5_files, summary_rows, csv_file, json_file, now>>

total_seconds_of(steps, frame_rate) == RDiv(Rat(steps), frame_rate)

(* hours taken for minutes *)
total_hours_per_60(total_seconds) == RDiv(total_seconds, 60)

total_hours_of(total_seconds) == RDiv(total_seconds, 3600)

(* the row appended to summary_rows for one folder *)
batch_row(folder, steps, segments, t, meta) ==
    <<basename(folder),
      total_seconds_of(steps, meta.frame_rate),
      total_hours_of(total_seconds_of(steps, meta.frame_rate)),
      steps,
      segments,
      strftime(t),
      meta.robot_id,
      meta.operator_id,
      meta.environment,
      meta.software_version,
      meta.target_item,
      "",
      "",
      meta.data_description>>

(* analyze_hdf5_files returns (its locals and the view of the folder's    *)
(* files go out of scope); the folder's row is appended                  *)
BatchFolderRow ==
    /\ pc = "files" /\ mode = "batch" /\ k > Len(hdf5_files)
    /\ printed' = IF total_action_segments = 0
                  THEN Append(printed, Msg("Warning: 'label/task_timestep' not found",
                                           folder_paths[fi]))
                  ELSE printed
    /\ now' \in {t \in {now, now + 1} : t <= MaxTime}
    /\ summary_rows' = Append(summary_rows,
                              batch_row(folder_paths[fi], total_action_steps,
                                        total_action_segments, now', meta_info))
    /\ fi' = fi + 1
    /\ fs' = <<>>
    /\ hdf5_files' = <<>>
    /\ k' = 1
    /\ pc' = "folders"
    /\ UNCHANGED <<mode, listing, data_dir, meta_info, folder_paths,
                   total_action_steps, total_action_segments,
                   csv_file, json_file, exit_code>>

(* no header written when there is no row *)
csv_content_rows_only(rows) == IF rows = <<>> THEN <<>> ELSE <<Header>> \o rows

(* writerow(header) then writerows(summary_rows) *)
csv_content(rows) == <<Header>> \o rows

BatchWriteCsv ==
    /\ pc = "folders" /\ fi > Len(folder_paths)
    /\ csv_file' = csv_content(summary_rows)
    /\ printed' = Append(printed, Msg("Summary CSV saved to", <<"summary_hdf5.csv">>))
    /\ pc' = "json"
    /\ UNCHANGED <<mode, listing, data_dir, meta_info, folder_paths, fi, fs,
                   hdf5_files, k, total_action_steps, total_action_segments,
                   summary_rows, json_file, exit_code, now>>

column(rows, c) == [i \in 1..Len(rows) |-> rows[i][c]]

summary_json(paths, rows, t) ==
    [total_folders_analyzed |-> Len(paths),
     total_action_steps |-> ISum(column(rows, 4)),
     total_action_segments |-> ISum(column(rows, 5)),
     total_time_seconds |-> round2(RSum(column(rows, 2))),
     total_time_hours |-> round2(RSum(column(rows, 3))),
     record_time |-> strftime(t)]

BatchWriteJson ==
    /\ pc = "json"
    /\ now' \in {t \in {now, now + 1} : t <= MaxTime}
    /\ json_file' = <<summary_json(folder_paths, summary_rows, now')>>
    /\ printed' = Append(printed, Msg("Summary JSON saved to",
                                      <<"hdf5_total_summary.json">>))
    /\ pc' = "done"
    /\ UNCHANGED <<mode, listing, data_dir, meta_info, folder_paths, fi, fs,
                   hdf5_files, k, total_action_steps, total_action_segments,
                   summary_rows, csv_file, exit_code>>

(* --------------------- analysis.py: single folder ---------------------- *)
(* the empty-glob check left out *)
single_analyze_start_unchecked(files) ==
    /\ total_action_steps' = 0
    /\ total_action_segments' = 0
    /\ k' = 1
    /\ pc' = "files"
    /\ UNCHANGED <<printed, exit_code>>

single_analyze_start(files) ==
    IF files = <<>>
    THEN /\ printed' = Append(printed, Msg("No HDF5 files found", <<>>))
         /\ exit_code' = 1
         /\ pc' = "exited"
         /\ UNCHANGED <<total_action_steps, total_action_segments, k>>
    ELSE /\ total_action_steps' = 0
         /\ total_action_segments' = 0
         /\ k' = 1
         /\ pc' = "files"
         /\ UNCHANGED <<printed, exit_code>>

SingleGlobEmpty ==
    /\ pc = "start" /\ mode = "single"
    /\ meta_info' \in MetaInfos
    /\ fs' = <<>>
    /\ hdf5_files' = <<>>
    /\ single_analyze_start(hdf5_files')
    /\ UNCHANGED <<mode, listing, data_dir, folder_paths, fi, summary_rows,
                   csv_file, json_file, now>>

SingleGlobFound ==
    /\ pc = "start" /\ mode = "single"
    /\ meta_info' \in MetaInfos
    /\ \E tree \in FileSystems \ {<<>>} :
         /\ fs' = tree
         /\ hdf5_files' \in glob(data_dir, tree)
    /\ single_analyze_start(hdf5_files')
    /\ UNCHANGED <<mode, listing, data_dir, folder_paths, fi, summary_rows,
                   csv_file, json_file, now>>

single_steps_added(f) ==
    IF f.kind \in {"ok", "nolabel", "labelfail"} THEN f.action ELSE 0

single_segments_added(f) == IF f.kind = "ok" THEN f.label ELSE 0

(* h5py.File, f['action'] or f['label/task_timestep'] raises *)
single_raises(f) == f.kind # "ok"

(* the loop body wrapped in the batch scan's try/except *)
single_read_guarded(file_path) ==
    /\ total_action_steps' =
         total_action_steps + single_steps_added(content(file_path))
    /\ total_action_segments' =
         total_action_segments + single_segments_added(content(file_path))
    /\ printed' = IF single_raises(content(file_path))
                  THEN Append(printed, Msg("Error opening", file_path))
                  ELSE printed
    /\ k' = k + 1
    /\ UNCHANGED <<pc, exit_code>>

(* one iteration of the unguarded loop: an exception leaves main *)
single_read(file_path) ==
    /\ total_action_steps' =
         total_action_steps + single_steps_added(content(file_path))
    /\ total_action_segments' =
         total_action_segments + single_segments_added(content(file_path))
    /\ IF single_raises(content(file_path))
       THEN /\ pc' = "raised"
            /\ exit_code' = 1
            /\ UNCHANGED k
       ELSE /\ k' = k + 1
            /\ UNCHANGED <<pc, exit_code>>
    /\ UNCHANGED printed

SingleReadFile ==
    /\ pc = "files" /\ mode = "single" /\ k <= Len(hdf5_files)
    /\ single_read(hdf5_files[k])
    /\ UNCHANGED <<mode, listing, data_dir, meta_info, folder_paths, fi, fs,
                   hdf5_files, summary_rows, csv_file, json_file, now>>

single_summary(dir, steps, segments, t, meta) ==
    [task_name |-> basename(dir),
     total_seconds |-> total_seconds_of(steps, meta.frame_rate),
     total_hours |-> total_hours_of(total_seconds_of(steps, meta.frame_rate)),
     frame_count |-> steps,
     robot_id |-> meta.robot_id,
     operator_id |-> meta.operator_id,
     segment_count |-> segments,
     record_time |-> strftime(t),
     environment |-> meta.environment,
     software_version |-> meta.software_version,
     frame_rate |-> meta.frame_rate,
     target_item |-> meta.target_item,
     data_description |-> meta.data_description]

write_summary_csv(summary) ==
    <<Header,
      <<summary.task_name, summary.total_seconds, summary.total_hours,
        summary.frame_count, summary.frame_rate, summary.robot_id,
        summary.operator_id, summary.segment_count, summary.record_time,
        summary.environment, summary.software_version, summary.target_item,
        "", "", summary.data_description>>>>

SingleWriteSummary ==
    /\ pc = "files" /\ mode = "single" /\ k > Len(hdf5_files)
    /\ now' \in {t \in {now, now + 1} : t <= MaxTime}
    /\ csv_file' = write_summary_csv(
                     single_summary(data_dir, total_action_steps,
                                    total_action_segments, now', meta_info))
    /\ pc' = "done"
    /\ UNCHANGED <<mode, listing, data_dir, meta_info, folder_paths, fi, fs,
                   hdf5_files, k, total_action_steps, total_action_segments,
                   summary_rows, printed, json_file, exit_code>>

(* all_analysis.py *)
NextBatch ==
    \/ ListFolders
    \/ FilterFolders
    \/ BatchGlobEmpty
    \/ BatchGlobFound
    \/ BatchReadFile
    \/ BatchFolderRow
    \/ BatchWriteCsv
    \/ BatchWriteJson

(* analysis.py *)
NextSingle ==
    \/ SingleGlobEmpty
    \/ SingleGlobFound
    \/ SingleReadFile
    \/ SingleWriteSummary

Next == NextBatch \/ NextSingle

(* either script, on any root listing and any folder contents *)
Spec == Init /\ [][Next]_vars

(* either script on one dataset folder: analysis.py on its data_dir, or    *)
(* all_analysis.py on a root that holds exactly that folder                *)
InitFolder ==
    /\ Init
    /\ mode = "batch" => listing \in {<<N_pick_cube>>, <<N_fold_towel>>}

SpecFolder == InitFolder /\ [][Next]_vars

(* all_analysis.py around its folder loop: listing, filter and the two     *)
(* report writes.  The loop's actions are left out; they are enabled only  *)
(* when a folder survives the filter, so a scan in which none survives     *)
(* behaves under this specification exactly as under Spec.                 *)
InitListing == Init /\ mode = "batch"

NextListing ==
    \/ ListFolders
    \/ FilterFolders
    \/ BatchWriteCsv
    \/ BatchWriteJson

SpecListing == InitListing /\ [][NextListing]_vars

(* ============================ properties =============================== *)
LoopDone == pc = "files" /\ k > Len(hdf5_files)

Printed(m) == \E i \in 1..Len(printed) : printed[i].msg = m

RECURSIVE SumFrames(_, _)
SumFrames(tree, names) ==
    IF names = {} THEN 0
    ELSE LET n == CHOOSE x \in names : TRUE
         IN  tree[n].action + SumFrames(tree, names \ {n})

RECURSIVE SumSegments(_, _)
SumSegments(tree, names) ==
    IF names = {} THEN 0
    ELSE LET n == CHOOSE x \in names : TRUE
         IN  (IF tree[n].kind = "ok" THEN tree[n].label ELSE 0)
             + SumSegments(tree, names \ {n})

Completed(tree) == {n \in DOMAIN tree : tree[n].kind \in {"ok", "nolabel"}}

Abs(x) == IF x < 0 THEN 0 - x ELSE x

(* C1: in batch mode a surviving folder with zero episode files does not  *)
(* abort the scan: the process keeps running with exit status 0 (and goes *)
(* on to add a 0/0 row for the folder).                                    *)
C1_EmptyFolderDoesNotAbort ==
    (mode = "batch" /\ Printed("No HDF5 files found"))
        => (pc # "exited" /\ exit_code = 0)

(* C2: every data row of the batch scan's tabular report has 15 fields,   *)
(* one per header column, each holding the value its column names, in the *)
(* order the folders were processed.                                       *)
C2_BatchRowsMatchHeader ==
    (mode = "batch" /\ csv_file # NoFile) =>
        \A i \in 2..Len(csv_file) :
            /\ Len(csv_file[i]) = Len(Header)
            /\ csv_file[i][1] = basename(folder_paths[i - 1])
            /\ csv_file[i][4] = summary_rows[i - 1][4]
            /\ csv_file[i][5] = meta_info.frame_rate
            /\ csv_file[i][6] = meta_info.robot_id
            /\ csv_file[i][7] = meta_info.operator_id
            /\ csv_file[i][8] = summary_rows[i - 1][5]
            /\ csv_file[i][9] = summary_rows[i - 1][6]
            /\ csv_file[i][15] = meta_info.data_description

Filtered == mode = "batch" /\ pc \notin {"start", "filter"}

Scanned(name) == \E i \in 1..Len(folder_paths) : basename(folder_paths[i]) = name

Listed(name) == \E i \in 1..Len(listing) : listing[i] = name

(* C3 (as stated): the filter excludes ".hidden", "TEMP_run3" and          *)
(* "my_backup_copy" and includes "latest_session".                         *)
C3_LatestSessionIncluded ==
    Filtered =>
        /\ ~Scanned(N_hidden)
        /\ ~Scanned(N_TEMP_run3)
        /\ ~Scanned(N_my_backup_copy)
        /\ (Listed(N_latest_session) => Scanned(N_latest_session))

(* C3 (amended): the filter excludes ".hidden", "TEMP_run3",               *)
(* "my_backup_copy" and also "latest_session" (its name contains "test");  *)
(* a folder such as "pick_cube" is included.                               *)
C3_FilterExcludes ==
    Filtered =>
        /\ ~Scanned(N_hidden)
        /\ ~Scanned(N_TEMP_run3)
        /\ ~Scanned(N_my_backup_copy)
        /\ ~Scanned(N_latest_session)
        /\ (Listed(N_pick_cube) => Scanned(N_pick_cube))

C3_Witness ==
    /\ Filtered
    /\ listing = <<N_latest_session, N_pick_cube>>
    /\ folder_paths = <<join(codebase_dir, N_pick_cube)>>

(* C4: in batch mode, once a failure while reading an episode file has     *)
(* been reported, the scan is never aborted: it goes on over the remaining *)
(* files and folders to write both report files, and never ends early      *)
(* with a failure status.                                                  *)
C4_ScanSurvivesFileFailure ==
    (mode = "batch" /\ Printed("Error opening"))
        => (pc \notin {"exited", "raised"} /\ exit_code = 0)

(* The part of C4 the loop itself guarantees: the step that meets a        *)
(* failing file prints a warning naming its path and moves to the next     *)
(* file with the scan still running; the scan is only ever left early by   *)
(* the exit on an empty folder, and a scan that reaches its end has a row  *)
(* for every folder and both report files.                                 *)
FileFailureStepContinues ==
    /\ [][(mode = "batch" /\ pc = "files" /\ k <= Len(hdf5_files)
             /\ fs[basename(hdf5_files[k])].kind \in {"openfail", "noaction", "labelfail"})
          => (/\ pc' = "files"
              /\ exit_code' = 0
              /\ k' = k + 1
              /\ printed' = Append(printed, Msg("Error opening", hdf5_files[k]))
              /\ UNCHANGED <<hdf5_files, folder_paths, fi, summary_rows>>)]_vars
    /\ [][(mode = "batch" /\ pc' \in {"exited", "raised"})
          => (pc = "folders" /\ hdf5_files' = <<>>)]_vars
    /\ [](mode = "batch" /\ pc = "done"
          => (/\ Len(summary_rows) = Len(folder_paths)
              /\ Len(csv_file) = Len(folder_paths) + 1
              /\ json_file # NoFile
              /\ exit_code = 0))

RowExact(seconds, hours, frames, frame_rate) ==
    /\ seconds.num * frame_rate = frames * seconds.den
    /\ hours.num * 3600 * seconds.den = seconds.num * hours.den

RecordsExact ==
    /\ \A i \in 1..Len(summary_rows) :
         RowExact(summary_rows[i][2], summary_rows[i][3], summary_rows[i][4],
                  meta_info.frame_rate)
    /\ (mode = "single" /\ csv_file # NoFile) =>
         RowExact(csv_file[2][2], csv_file[2][3], csv_file[2][4], csv_file[2][5])

(* C5 (as stated): total_seconds = total_frame_count / frame_rate and      *)
(* total_hours = total_seconds / 3600 exactly, for every per-folder record *)
(* and for the corpus totals of the JSON summary.                          *)
C5_ExactEverywhere ==
    /\ RecordsExact
    /\ json_file # NoFile =>
         /\ json_file[1].total_time_seconds.num * meta_info.frame_rate
              = json_file[1].total_action_steps * json_file[1].total_time_seconds.den
         /\ json_file[1].total_time_hours.num * 3600 * json_file[1].total_time_seconds.den
              = json_file[1].total_time_seconds.num * json_file[1].total_time_hours.den

(* C5 (amended): the two equations hold exactly for every per-folder       *)
(* record; the corpus totals of the JSON summary are rounded to two        *)
(* decimals, so total_time_seconds is within 0.005 of                      *)
(* total_action_steps / frame_rate and total_time_hours within 0.005 of    *)
(* total_action_steps / (frame_rate * 3600).                               *)
C5_ExactRecordsRoundedTotals ==
    /\ RecordsExact
    /\ json_file # NoFile =>
         /\ json_file[1].total_time_seconds.den = 100
         /\ json_file[1].total_time_hours.den = 100
         /\ 2 * Abs(100 * json_file[1].total_action_steps
                    - json_file[1].total_time_seconds.num * meta_info.frame_rate)
              <= meta_info.frame_rate
         /\ 2 * Abs(100 * json_file[1].total_action_steps
                    - json_file[1].total_time_hours.num * meta_info.frame_rate * 3600)
              <= meta_info.frame_rate * 3600

C5_Witness ==
    /\ json_file # NoFile
    /\ Len(summary_rows) = 1
    /\ summary_rows[1][2] = [num |-> 3, den |-> 8]
    /\ meta_info.frame_rate = 8
    /\ json_file[1].total_action_steps = 3
    /\ json_file[1].total_time_seconds = [num |-> 38, den |-> 100]
    /\ json_file[1].total_time_hours = [num |-> 0, den |-> 100]

(* C6: in single-folder mode a failure on any one episode file (cannot be  *)
(* opened, 'action' missing, 'label/task_timestep' missing) is fatal: the  *)
(* error leaves the aggregation, no later file is read and no summary      *)
(* report is written.                                                      *)
C6_SingleFailureIsFatal ==
    /\ [][(mode = "single" /\ pc = "files" /\ k <= Len(hdf5_files)
             /\ fs[basename(hdf5_files[k])].kind # "ok")
          => (pc' = "raised" /\ exit_code' # 0 /\ k' = k)]_vars
    /\ [][pc # "raised"]_vars
    /\ [](pc = "raised" => csv_file = NoFile)

C6_Witness ==
    /\ mode = "single" /\ pc = "raised"
    /\ k = 1 /\ Len(hdf5_files) = 2
    /\ fs[basename(hdf5_files[1])].kind = "nolabel"
    /\ fs[basename(hdf5_files[2])].kind = "ok"
    /\ csv_file = NoFile

(* C7: when every episode file of a folder opens and yields its 'action'   *)
(* array, the batch aggregator's total frame count is the sum of the       *)
(* 'action' lengths and its total segment count the sum of the segment     *)
(* lengths, a file without the segment array counting 0 segments while its *)
(* frames are still added, whatever order the files are visited in.        *)
C7_TotalsAreSums ==
    (mode = "batch" /\ LoopDone /\ Completed(fs) = DOMAIN fs) =>
        /\ total_action_steps = SumFrames(fs, DOMAIN fs)
        /\ total_action_segments = SumSegments(fs, DOMAIN fs)

C7_Witness ==
    /\ mode = "batch" /\ LoopDone
    /\ Len(fs) = 2
    /\ fs[1] = [kind |-> "nolabel", action |-> 2, label |-> 0]
    /\ fs[2] = [kind |-> "ok", action |-> 1, label |-> 2]
    /\ basename(hdf5_files[1]) = 2
    /\ total_action_steps = 3
    /\ total_action_segments = 2

(* C8: when no candidate folder is left after filtering, the batch scan    *)
(* does not fail: it writes a tabular report with the header row only and  *)
(* a JSON summary with 0 folders, 0 frames, 0 segments, 0 seconds and      *)
(* 0 hours.                                                                *)
C8_ZeroFolders ==
    (Filtered /\ folder_paths = <<>>) =>
        /\ pc \in {"folders", "json", "done"}
        /\ exit_code = 0
        /\ pc \in {"json", "done"} => csv_file = <<Header>>
        /\ pc = "done" =>
             /\ json_file # NoFile
             /\ json_file[1].total_folders_analyzed = 0
             /\ json_file[1].total_action_steps = 0
             /\ json_file[1].total_action_segments = 0
             /\ json_file[1].total_time_seconds.num = 0
             /\ json_file[1].total_time_hours.num = 0

C8_Witness ==
    /\ Filtered /\ folder_paths = <<>> /\ pc = "done"
    /\ listing = <<N_TEMP_run3, N_notes_txt>>
    /\ csv_file = <<Header>>
    /\ json_file[1].total_folders_analyzed = 0

(* C9: in single-folder mode, when no episode file is found under the      *)
(* folder, the process exits with a non-zero status and no summary report  *)
(* is written.                                                             *)
C9_SingleEmptyExits ==
    (mode = "single" /\ pc # "start" /\ hdf5_files = <<>>) =>
        /\ pc = "exited"
        /\ exit_code # 0
        /\ csv_file = NoFile

C9_Witness ==
    /\ mode = "single" /\ pc = "exited" /\ hdf5_files = <<>>
    /\ exit_code = 1
    /\ Printed("No HDF5 files found")

(* C10: in batch mode a file whose extraction fails at any point, also     *)
(* after its 'action' length was read, contributes to neither total: the   *)
(* folder's totals are the sums over the files whose extraction completed. *)
C10_FailedFilesContributeNothing ==
    (mode = "batch" /\ LoopDone) =>
        /\ total_action_steps = SumFrames(fs, Completed(fs))
        /\ total_action_segments = SumSegments(fs, Completed(fs))

====
